---- MODULE Spec2Model ----
(***************************************************************************)
(* SimpleStepper: the /api/inboundRules handler (SGHandler) of             *)
(* simple_stepper.py, with the cloud provider's security groups as the     *)
(* only durable state.  One request is handled at a time (the handler is   *)
(* synchronous on a single IOLoop); a request is a sequence of steps, one  *)
(* step per provider call.                                                 *)
(***************************************************************************)
EXTENDS Integers, Sequences, FiniteSets, TLC

\* ---------------------------------------------------------------- bounds
MaxRequests == 2
MaxExternal == 1

\* ------------------------------------------------------- program constants
OK == 200
BAD_REQUEST == 400
INTERNAL_SERVER_ERROR == 500
SSH_PORT == 22

\* --------------------------------------------------------------- universe
\* The security groups that exist in the account, in the order the provider
\* reports them.
ProviderOrder == <<"sg-1", "sg-2", "sg-3">>

Range(s) == {s[n] : n \in 1..Len(s)}

Existing == Range(ProviderOrder)

GroupName(id) == "name-" \o id

\* A grant as the provider library hands it out: an object holding a CIDR.
Grant(c) == [cidr_ip |-> c]

Rule(p, f, t, gs) == [ip_protocol |-> p, from_port |-> f, to_port |-> t, grants |-> gs]

\* The rule lists a group may start with.
InitialRules ==
    { <<>>,
      << Rule("tcp", 22, 22, <<Grant("5.5.5.5/32")>>),
         Rule("udp", 53, 54, <<Grant("6.6.6.6/32")>>) >>,
      << Rule("tcp", 80, 81, <<Grant("5.5.5.5/32"), Grant("6.6.6.6/32")>>) >> }

\* The rules sg-2 and sg-3 start with.
SecondRules == << Rule("tcp", 80, 81, <<Grant("5.5.5.5/32"), Grant("6.6.6.6/32")>>) >>
ThirdRules == << Rule("tcp", 22, 22, <<Grant("5.5.5.5/32")>>) >>

\* The configured target lists: the default (empty), one group, two groups in
\* either order, a repeated id, and an id the provider does not know.
Configs ==
    { <<>>, <<"sg-1">>, <<"sg-1", "sg-2">>, <<"sg-2", "sg-1">>,
      <<"sg-1", "sg-1">>, <<"sg-9">> }

\* An optional value: Python's None or a string.
None == [some |-> FALSE, val |-> ""]
Some(s) == [some |-> TRUE, val |-> s]

\* Request inputs.
HeaderNames == {"X-Forwarded-For", "x-forwarded-for", "X-Real-Ip"}
HeaderSets == {<<>>} \cup {<<[name |-> n, value |-> "9.9.9.9"]>> : n \in HeaderNames}
PeerAddresses == {Some("1.2.3.4"), None}

\* Provider failures: a rejection carries the provider's message, any other
\* failure its string form.
Rejections == {"InvalidGroup.NotFound"}
OtherFailures == {"timed out"}
NoFailure == [kind |-> "none", message |-> ""]
Failures ==
    {[kind |-> "rejection", message |-> m] : m \in Rejections}
    \cup {[kind |-> "other", message |-> m] : m \in OtherFailures}

\* ------------------------------------------------------------ conversions
\* str.upper() on the header names in play.
Upper(s) ==
    CASE s \in {"X-Forwarded-For", "x-forwarded-for", "X-FORWARDED-FOR"} -> "X-FORWARDED-FOR"
      [] s \in {"X-Real-Ip"} -> "X-REAL-IP"
      [] OTHER -> s

\* The framework's header map stores and looks names up in Http-Header-Case.
NormalizedName(s) ==
    CASE s \in {"X-Forwarded-For", "x-forwarded-for", "X-FORWARDED-FOR"} -> "X-Forwarded-For"
      [] OTHER -> s

\* request.headers.keys()
HeaderKeys(hs) == [n \in 1..Len(hs) |-> NormalizedName(hs[n].name)]

\* request.headers.get(name)
HeaderGet(hs, name) ==
    IF \E n \in 1..Len(hs) : NormalizedName(hs[n].name) = NormalizedName(name)
    THEN Some(hs[CHOOSE n \in 1..Len(hs) :
                    NormalizedName(hs[n].name) = NormalizedName(name)].value)
    ELSE None

\* '{0}'.format(x) of an optional string.
Format(x) == IF x.some THEN x.val ELSE "None"

\* str(grant)
GrantStr(g) == g.cidr_ip

\* Cidr without the prefix length.
CidrBare(ip) == Format(ip)

\* '{0}/32'.format(remote_ip)
Cidr(ip) == Format(ip) \o "/32"

RECURSIVE ReprItems(_)
\* The items of a list of str as its repr shows them.
ReprItems(s) ==
    IF Len(s) = 0 THEN ""
    ELSE IF Len(s) = 1 THEN "'" \o s[1] \o "'"
    ELSE "'" \o s[1] \o "', " \o ReprItems(Tail(s))

\* '{sg}'.format(sg=<list of str>)
ListRepr(s) == "[" \o ReprItems(s) \o "]"

\* the success message of post
Message(ip, sgs) == "Your IP " \o Format(ip) \o " is appended to " \o ListRepr(sgs)

\* Port with another separator.
PortNoSpaces(f, t) == ToString(f) \o "-" \o ToString(t)

\* '{0} - {1}'.format(rule.from_port, rule.to_port)
Port(f, t) == ToString(f) \o " - " \o ToString(t)

\* --------------------------------------------------------------- provider
\* The rules of a group after the provider accepted an authorize call: the
\* grant joins the rule with that protocol and port range, or a new rule is
\* appended; a grant already present is left as it is.
AuthorizeRules(rules, p, f, t, c) ==
    LET hit == {n \in 1..Len(rules) :
                  /\ rules[n].ip_protocol = p
                  /\ rules[n].from_port = f
                  /\ rules[n].to_port = t}
    IN  IF hit = {} THEN Append(rules, Rule(p, f, t, <<Grant(c)>>))
        ELSE [n \in 1..Len(rules) |->
                IF n \in hit /\ Grant(c) \notin Range(rules[n].grants)
                THEN [rules[n] EXCEPT !.grants = Append(@, Grant(c))]
                ELSE rules[n]]

\* The rules of a group after the provider accepted a revoke call: the grant
\* leaves its rule, and a rule without grants disappears.
RevokeRules(rules, p, f, t, c) ==
    LET match(r) == r.ip_protocol = p /\ r.from_port = f /\ r.to_port = t
        strip(r) == IF match(r)
                    THEN [r EXCEPT !.grants = SelectSeq(@, LAMBDA g : g # Grant(c))]
                    ELSE r
        stripped == [n \in 1..Len(rules) |-> strip(rules[n])]
    IN  SelectSeq(stripped, LAMBDA r : r.grants # <<>>)

\* conn.get_all_security_groups(group_ids=ids) on provider state gs: an empty
\* id list is no filter at all, so every group of the account is returned.
SecurityGroupsOf(gs, ids) ==
    LET wanted(id) == ids = <<>> \/ id \in Range(ids)
        chosen == SelectSeq(ProviderOrder, wanted)
    IN  [n \in 1..Len(chosen) |->
            [id |-> chosen[n], name |-> GroupName(chosen[n]), rules |-> gs[chosen[n]]]]

\* The configured ids the provider does not know; get_all_security_groups
\* cannot succeed while there is one.
UnknownIds(ids) == Range(ids) \ Existing

\* ---------------------------------------------------------- pure functions
RECURSIVE GrantEntries(_, _)
\* The inner loop of parse_security_groups: one entry per grant of a rule.
GrantEntries(rule, gs) ==
    IF gs = <<>> THEN <<>>
    ELSE <<[source |-> GrantStr(Head(gs)),
            protocol |-> rule.ip_protocol,
            port |-> Port(rule.from_port, rule.to_port)]>>
         \o GrantEntries(rule, Tail(gs))

RECURSIVE RuleEntries(_)
\* The middle loop of parse_security_groups: the entries of every rule.
RuleEntries(rules) ==
    IF rules = <<>> THEN <<>>
    ELSE GrantEntries(Head(rules), Head(rules).grants) \o RuleEntries(Tail(rules))

\* parse_security_groups, given the provider's response.
parse_security_groups(response) ==
    [results |->
        [n \in 1..Len(response) |->
            [name |-> response[n].name,
             id |-> response[n].id,
             rules |-> RuleEntries(response[n].rules)]]]

RECURSIVE RevokeGrants(_, _, _)
\* The innermost loop of delete over one rule's grants.
RevokeGrants(sg, rule, gs) ==
    IF gs = <<>> THEN <<>>
    ELSE <<[sg |-> sg.id, ip_protocol |-> rule.ip_protocol,
            from_port |-> rule.from_port, to_port |-> rule.to_port,
            cidr_ip |-> Head(gs)]>>
         \o RevokeGrants(sg, rule, Tail(gs))

RECURSIVE RevokeRulesOf(_, _)
\* The loop of delete over one group's rules.
RevokeRulesOf(sg, rules) ==
    IF rules = <<>> THEN <<>>
    ELSE RevokeGrants(sg, Head(rules), Head(rules).grants) \o RevokeRulesOf(sg, Tail(rules))

RECURSIVE Enumeration(_)
\* The three nested loops of delete: every (group, rule, grant) in order.
Enumeration(sgs) ==
    IF sgs = <<>> THEN <<>>
    ELSE RevokeRulesOf(Head(sgs), Head(sgs).rules) \o Enumeration(Tail(sgs))

\* ResultEntry with the two ports exchanged.
ResultEntrySwapped(e) ==
    [ip_protocol |-> e.ip_protocol, from_port |-> e.to_port,
     to_port |-> e.from_port, cidr_ip |-> GrantStr(e.cidr_ip)]

\* The entry delete records for one grant.
ResultEntry(e) ==
    [ip_protocol |-> e.ip_protocol, from_port |-> e.from_port,
     to_port |-> e.to_port, cidr_ip |-> GrantStr(e.cidr_ip)]

\* The status the except clauses set: EC2ResponseError or anything else.
ErrorStatus(kind) == IF kind = "rejection" THEN BAD_REQUEST ELSE INTERNAL_SERVER_ERROR

\* ErrorBody that reports success.
ErrorBodyOk(st, msg) == [status_code |-> OK, message |-> msg]

\* The body of an error response.
ErrorBody(st, msg) == [status_code |-> st, message |-> msg]

MissingIpMessage == "Sorry, could not get Your IP Address."

\* ------------------------------------------------------------------ state
VARIABLES
    target_security_group_ids,  \* the configured option, fixed at startup
    groups,                     \* provider: group id -> its inbound rules
    pc,                         \* where the handler stands
    method,                     \* the verb of the request in hand
    headers,                    \* request.headers
    peer_ip,                    \* request.remote_ip
    remote_ip,                  \* post's local
    response_sgs,               \* what get_all_security_groups returned
    i,                          \* position of the loop over the response
    results,                    \* delete's local
    status,                     \* the handler's status code (get_status())
    written,                    \* the responses sent to the caller
    finishCalls,                \* how often the handler called finish()
    escaped,                    \* an exception left the handler
    fetch,                      \* "none", "ok" or "failed"
    calls,                      \* authorize / revoke calls of this request
    failure,                    \* the provider failure of this request
    pre,                        \* provider state when the request began
    requests,                   \* requests begun
    externals,                  \* changes made by other users of the account
    clean,                      \* a Clear succeeded and nothing was added since
    afterClean                  \* this request began in a clean state

vars == <<target_security_group_ids, groups, pc, method, headers, peer_ip,
          remote_ip, response_sgs, i, results, status, written, finishCalls,
          escaped, fetch, calls, failure, pre, requests, externals, clean,
          afterClean>>

Init ==
    /\ target_security_group_ids \in Configs
    /\ \E r \in InitialRules :
          groups = [g \in Existing |->
                      IF g = "sg-1" THEN r ELSE IF g = "sg-2" THEN SecondRules ELSE ThirdRules]
    /\ pc = "idle"
    /\ method = "none"
    /\ headers = <<>>
    /\ peer_ip = None
    /\ remote_ip = None
    /\ response_sgs = <<>>
    /\ i = 1
    /\ results = <<>>
    /\ status = OK
    /\ written = <<>>
    /\ finishCalls = 0
    /\ escaped = FALSE
    /\ fetch = "none"
    /\ calls = <<>>
    /\ failure = NoFailure
    /\ pre = groups
    /\ requests = 0
    /\ externals = 0
    /\ clean = FALSE
    /\ afterClean = FALSE

\* A response as the caller receives it.
Response(st, body) == [http |-> st, body |-> body]

CanBegin == pc \in {"idle", "done"} /\ requests < MaxRequests

\* A fresh handler instance takes the request.
Begin(m, hs, peer) ==
    /\ CanBegin
    /\ method' = m
    /\ headers' = hs
    /\ peer_ip' = peer
    /\ requests' = requests + 1
    /\ pre' = groups
    /\ UNCHANGED <<target_security_group_ids, externals>>

\* An except clause: set the status, finish with the error body.  finish() on
\* a finished response raises, and that exception leaves the handler.
Handle(f, w, n) ==
    /\ failure' = f
    /\ status' = ErrorStatus(f.kind)
    /\ finishCalls' = n + 1
    /\ IF w = <<>>
       THEN /\ written' = <<Response(ErrorStatus(f.kind),
                                     ErrorBody(ErrorStatus(f.kind), f.message))>>
            /\ escaped' = FALSE
       ELSE /\ written' = w
            /\ escaped' = TRUE
    /\ pc' = "done"

\* DetermineIp that ignores the headers.
PeerAlways(hs, peer) == peer

\* post, lines 167-174: the caller's IP.
DetermineIp(hs, peer) ==
    IF "X-FORWARDED-FOR" \in {Upper(k) : k \in Range(HeaderKeys(hs))}
    THEN HeaderGet(hs, "X-FORWARDED-FOR")
    ELSE peer

\* ---------------------------------------------------------------- get
GetOk ==
    /\ Begin("GET", <<>>, None)
    /\ UnknownIds(target_security_group_ids) = {}
    /\ response_sgs' = SecurityGroupsOf(groups, target_security_group_ids)
    /\ fetch' = "ok"
    /\ status' = OK
    /\ written' = <<Response(OK, parse_security_groups(response_sgs'))>>
    /\ finishCalls' = 1
    /\ escaped' = FALSE
    /\ failure' = NoFailure
    /\ pc' = "done"
    /\ remote_ip' = None /\ i' = 1 /\ results' = <<>> /\ calls' = <<>>
    /\ afterClean' = FALSE
    /\ UNCHANGED <<groups, clean>>

GetFail ==
    /\ Begin("GET", <<>>, None)
    /\ \E f \in Failures : Handle(f, <<>>, 0)
    /\ response_sgs' = <<>>
    /\ fetch' = "failed"
    /\ remote_ip' = None /\ i' = 1 /\ results' = <<>> /\ calls' = <<>>
    /\ afterClean' = FALSE
    /\ UNCHANGED <<groups, clean>>

\* --------------------------------------------------------------- post
\* AfterIpCheck with a return in the missing-IP branch.
AfterIpCheckReturns(ip) == IF ip = None THEN "done" ELSE "post_fetch"

\* Lines 176-184: the missing-IP branch finishes the response and does not
\* return, so connecting and fetching come next whatever the IP is.
AfterIpCheck(ip) == "post_fetch"

\* Lines 167-183: determine the IP; without one, respond 500 and go on.
PostBegin ==
    \E hs \in HeaderSets, peer \in PeerAddresses :
        /\ Begin("POST", hs, peer)
        /\ remote_ip' = DetermineIp(hs, peer)
        /\ IF remote_ip' = None
           THEN /\ status' = INTERNAL_SERVER_ERROR
                /\ written' = <<Response(INTERNAL_SERVER_ERROR,
                                 ErrorBody(INTERNAL_SERVER_ERROR, MissingIpMessage))>>
                /\ finishCalls' = 1
           ELSE /\ status' = OK
                /\ written' = <<>>
                /\ finishCalls' = 0
        /\ escaped' = FALSE
        /\ failure' = NoFailure
        /\ fetch' = "none"
        /\ response_sgs' = <<>> /\ i' = 1 /\ results' = <<>> /\ calls' = <<>>
        /\ afterClean' = FALSE
        /\ pc' = AfterIpCheck(remote_ip')
        /\ UNCHANGED <<groups, clean>>

\* Lines 184-191.
PostFetch ==
    /\ pc = "post_fetch"
    /\ UnknownIds(target_security_group_ids) = {}
    /\ response_sgs' = SecurityGroupsOf(groups, target_security_group_ids)
    /\ fetch' = "ok"
    /\ i' = 1
    /\ pc' = "post_authorize"
    /\ UNCHANGED <<target_security_group_ids, groups, method, headers, peer_ip,
                   remote_ip, results, status, written, finishCalls, escaped,
                   calls, failure, pre, requests, externals, clean, afterClean>>

PostFetchFail ==
    /\ pc = "post_fetch"
    /\ \E f \in Failures : Handle(f, written, finishCalls)
    /\ fetch' = "failed"
    /\ UNCHANGED <<target_security_group_ids, groups, method, headers, peer_ip,
                   remote_ip, response_sgs, i, results, calls, pre, requests,
                   externals, clean, afterClean>>

\* The authorize call of lines 193-198 on one entry of the response.
AuthorizeCall(entry, ip, ok) ==
    [op |-> "authorize", sg |-> entry.id, ip_protocol |-> "tcp",
     from_port |-> SSH_PORT, to_port |-> SSH_PORT, cidr_ip |-> Cidr(ip), ok |-> ok]

\* Lines 192-198, one iteration, accepted by the provider.
PostAuthorize ==
    /\ pc = "post_authorize"
    /\ i <= Len(response_sgs)
    /\ LET c == AuthorizeCall(response_sgs[i], remote_ip, TRUE)
       IN  /\ calls' = Append(calls, c)
           /\ groups' = [groups EXCEPT ![c.sg] =
                            AuthorizeRules(@, c.ip_protocol, c.from_port, c.to_port, c.cidr_ip)]
    /\ i' = i + 1
    /\ clean' = FALSE
    /\ UNCHANGED <<target_security_group_ids, pc, method, headers, peer_ip,
                   remote_ip, response_sgs, results, status, written, finishCalls,
                   escaped, fetch, failure, pre, requests, externals, afterClean>>

\* Lines 192-198, one iteration, failing.
PostAuthorizeFail ==
    /\ pc = "post_authorize"
    /\ i <= Len(response_sgs)
    /\ calls' = Append(calls, AuthorizeCall(response_sgs[i], remote_ip, FALSE))
    /\ \E f \in Failures : Handle(f, written, finishCalls)
    /\ UNCHANGED <<target_security_group_ids, groups, method, headers, peer_ip,
                   remote_ip, response_sgs, i, results, fetch, pre, requests,
                   externals, clean, afterClean>>

\* Lines 199-211.  When the response is already finished, finish() raises,
\* "except Exception" (222-229) sets 500 and calls finish() once more, and that
\* exception leaves the handler.
PostFinish ==
    /\ pc = "post_authorize"
    /\ i > Len(response_sgs)
    /\ IF written = <<>>
       THEN /\ written' = <<Response(status,
                              [status_code |-> status,
                               message |-> Message(remote_ip, target_security_group_ids)])>>
            /\ finishCalls' = finishCalls + 1
            /\ UNCHANGED <<status, escaped>>
       ELSE /\ finishCalls' = finishCalls + 2
            /\ status' = INTERNAL_SERVER_ERROR
            /\ escaped' = TRUE
            /\ UNCHANGED written
    /\ pc' = "done"
    /\ UNCHANGED <<target_security_group_ids, groups, method, headers, peer_ip,
                   remote_ip, response_sgs, i, results, fetch, calls, failure,
                   pre, requests, externals, clean, afterClean>>

\* ------------------------------------------------------------- delete
\* Lines 233-241: a new request; the groups are fetched.
DeleteFetch ==
    /\ Begin("DELETE", <<>>, None)
    /\ UnknownIds(target_security_group_ids) = {}
    /\ response_sgs' = SecurityGroupsOf(groups, target_security_group_ids)
    /\ fetch' = "ok"
    /\ status' = OK
    /\ written' = <<>>
    /\ finishCalls' = 0
    /\ escaped' = FALSE
    /\ failure' = NoFailure
    /\ remote_ip' = None /\ i' = 1 /\ results' = <<>> /\ calls' = <<>>
    /\ afterClean' = clean
    /\ pc' = "delete_record"
    /\ UNCHANGED <<groups, clean>>

DeleteFetchFail ==
    /\ Begin("DELETE", <<>>, None)
    /\ \E f \in Failures : Handle(f, <<>>, 0)
    /\ response_sgs' = <<>>
    /\ fetch' = "failed"
    /\ remote_ip' = None /\ i' = 1 /\ results' = <<>> /\ calls' = <<>>
    /\ afterClean' = clean
    /\ UNCHANGED <<groups, clean>>

\* RevokeCall that passes to_port for both ports.
RevokeCallToPortTwice(e, ok) ==
    [op |-> "revoke", sg |-> e.sg, ip_protocol |-> e.ip_protocol,
     from_port |-> e.to_port, to_port |-> e.to_port, cidr_ip |-> e.cidr_ip, ok |-> ok]

\* The revoke call of lines 253-258 for one enumerated grant.
RevokeCall(e, ok) ==
    [op |-> "revoke", sg |-> e.sg, ip_protocol |-> e.ip_protocol,
     from_port |-> e.from_port, to_port |-> e.to_port, cidr_ip |-> e.cidr_ip, ok |-> ok]

\* Lines 245-252: the grant in hand is recorded.
DeleteRecord ==
    /\ pc = "delete_record"
    /\ i <= Len(Enumeration(response_sgs))
    /\ results' = Append(results, ResultEntry(Enumeration(response_sgs)[i]))
    /\ pc' = "delete_revoke"
    /\ UNCHANGED <<target_security_group_ids, groups, method, headers, peer_ip,
                   remote_ip, response_sgs, i, status, written, finishCalls,
                   escaped, fetch, calls, failure, pre, requests, externals,
                   clean, afterClean>>

\* Lines 253-258, accepted by the provider.
DeleteRevoke ==
    /\ pc = "delete_revoke"
    /\ LET c == RevokeCall(Enumeration(response_sgs)[i], TRUE)
       IN  /\ calls' = Append(calls, c)
           /\ groups' = [groups EXCEPT ![c.sg] =
                            RevokeRules(@, c.ip_protocol, c.from_port, c.to_port,
                                        GrantStr(c.cidr_ip))]
    /\ i' = i + 1
    /\ pc' = "delete_record"
    /\ UNCHANGED <<target_security_group_ids, method, headers, peer_ip, remote_ip,
                   response_sgs, results, status, written, finishCalls, escaped,
                   fetch, failure, pre, requests, externals, clean, afterClean>>

\* Lines 253-258, failing.
DeleteRevokeFail ==
    /\ pc = "delete_revoke"
    /\ calls' = Append(calls, RevokeCall(Enumeration(response_sgs)[i], FALSE))
    /\ \E f \in Failures : Handle(f, written, finishCalls)
    /\ UNCHANGED <<target_security_group_ids, groups, method, headers, peer_ip,
                   remote_ip, response_sgs, i, results, fetch, pre, requests,
                   externals, clean, afterClean>>

\* Lines 259-263.
DeleteFinish ==
    /\ pc = "delete_record"
    /\ i > Len(Enumeration(response_sgs))
    /\ written' = <<Response(status, [results |-> results])>>
    /\ finishCalls' = finishCalls + 1
    /\ clean' = TRUE
    /\ pc' = "done"
    /\ UNCHANGED <<target_security_group_ids, groups, method, headers, peer_ip,
                   remote_ip, response_sgs, i, results, status, escaped, fetch,
                   calls, failure, pre, requests, externals, afterClean>>

\* ------------------------------------------------------------ environment
ExternalCidrs == {"7.7.7.7/32"}

\* Between two requests another user of the account adds an inbound grant.
\* The finished request's handler instance is gone by then.
ExternalChange ==
    /\ pc \in {"idle", "done"}
    /\ externals < MaxExternal
    /\ \E g \in Existing, c \in ExternalCidrs :
          groups' = [groups EXCEPT ![g] = AuthorizeRules(@, "tcp", 80, 81, c)]
    /\ externals' = externals + 1
    /\ clean' = FALSE
    /\ pc' = "idle"
    /\ method' = "none" /\ headers' = <<>> /\ peer_ip' = None /\ remote_ip' = None
    /\ response_sgs' = <<>> /\ i' = 1 /\ results' = <<>> /\ status' = OK
    /\ written' = <<>> /\ finishCalls' = 0 /\ escaped' = FALSE /\ fetch' = "none"
    /\ calls' = <<>> /\ failure' = NoFailure /\ pre' = groups' /\ afterClean' = FALSE
    /\ UNCHANGED <<target_security_group_ids, requests>>

Next ==
    \/ GetOk
    \/ GetFail
    \/ PostBegin
    \/ PostFetch
    \/ PostFetchFail
    \/ PostAuthorize
    \/ PostAuthorizeFail
    \/ PostFinish
    \/ DeleteFetch
    \/ DeleteFetchFail
    \/ DeleteRecord
    \/ DeleteRevoke
    \/ DeleteRevokeFail
    \/ DeleteFinish
    \/ ExternalChange

Spec == Init /\ [][Next]_vars

\* ------------------------------------------------------------ properties
RECURSIVE SumTo(_, _)
\* f[1] + ... + f[n]
SumTo(f, n) == IF n = 0 THEN 0 ELSE f[n] + SumTo(f, n - 1)

\* How many grants the rule list rs holds in its first n rules.
GrantsIn(rs, n) == SumTo([r \in 1..Len(rs) |-> Len(rs[r].grants)], n)

\* How many grants the first n groups of a response hold.
GrantsOf(sgs, n) == SumTo([g \in 1..Len(sgs) |-> GrantsIn(sgs[g].rules, Len(sgs[g].rules))], n)

\* The place of grant k of rule r of group g in the enumeration order
\* (group, then rule, then grant).
PlaceOf(sgs, g, r, k) == GrantsOf(sgs, g - 1) + GrantsIn(sgs[g].rules, r - 1) + k

\* Every (group, rule, grant) of a response.
Triples(sgs) ==
    UNION { UNION { {<<g, r, k>> : k \in 1..Len(sgs[g].rules[r].grants)} :
                    r \in 1..Len(sgs[g].rules) } :
            g \in 1..Len(sgs) }

ClearSucceeded == method = "DELETE" /\ pc = "done" /\ failure = NoFailure

\* C1: a successful Clear issues exactly one revoke call per grant of every
\* rule of every returned group, with that rule's protocol and ports and that
\* grant, and answers 200 with one results entry per revoked grant, in
\* enumeration order, recorded before the revoke call and carrying the fields
\* the rule and grant had before revocation.
C1_ClearRevokesEveryGrantOnce ==
    /\ method = "DELETE" =>
          /\ Len(calls) <= Len(results)
          /\ Len(results) <= Len(calls) + 1
          /\ pc = "delete_revoke" => Len(results) = Len(calls) + 1
          /\ \A n \in 1..Len(calls) :
                /\ calls[n].op = "revoke"
                /\ results[n] = [ip_protocol |-> calls[n].ip_protocol,
                                 from_port |-> calls[n].from_port,
                                 to_port |-> calls[n].to_port,
                                 cidr_ip |-> calls[n].cidr_ip.cidr_ip]
    /\ ClearSucceeded =>
          /\ written = <<[http |-> 200, body |-> [results |-> results]]>>
          /\ Len(calls) = GrantsOf(response_sgs, Len(response_sgs))
          /\ Len(results) = Len(calls)
          /\ \A g \in 1..Len(response_sgs) : response_sgs[g].rules = pre[response_sgs[g].id]
          /\ \A t \in Triples(response_sgs) :
                LET sg == response_sgs[t[1]]
                    rule == pre[sg.id][t[2]]
                    n == PlaceOf(response_sgs, t[1], t[2], t[3])
                IN  /\ calls[n] = [op |-> "revoke", sg |-> sg.id,
                                   ip_protocol |-> rule.ip_protocol,
                                   from_port |-> rule.from_port,
                                   to_port |-> rule.to_port,
                                   cidr_ip |-> rule.grants[t[3]], ok |-> TRUE]
                    /\ results[n] = [ip_protocol |-> rule.ip_protocol,
                                     from_port |-> rule.from_port,
                                     to_port |-> rule.to_port,
                                     cidr_ip |-> rule.grants[t[3]].cidr_ip]

\* C1 witness: a Clear over one group with two rules of one grant each ended
\* with two revoke calls and two results.
C1_Witness ==
    /\ ClearSucceeded
    /\ Len(response_sgs) = 1
    /\ Len(pre[response_sgs[1].id]) = 2
    /\ Len(calls) = 2
    /\ Len(written[1].body.results) = 2

Configured == Range(target_security_group_ids)

AuthorizeSucceeded ==
    method = "POST" /\ pc = "done" /\ remote_ip.some /\ failure = NoFailure

\* C2: Authorize with a determined caller IP and no provider failure issues,
\* for every configured identifier, exactly one authorize call (tcp, 22 to 22,
\* source ip/32), issues no revoke call, and answers 200 with status_code 200
\* and the message "Your IP <ip> is appended to <configured list>".
C2_AuthorizeEveryConfiguredGroup ==
    AuthorizeSucceeded =>
        /\ \A id \in Configured :
              /\ Cardinality({n \in 1..Len(calls) : calls[n].sg = id}) = 1
              /\ \A n \in 1..Len(calls) :
                    calls[n].sg = id =>
                        calls[n] = [op |-> "authorize", sg |-> id, ip_protocol |-> "tcp",
                                    from_port |-> 22, to_port |-> 22,
                                    cidr_ip |-> remote_ip.val \o "/32", ok |-> TRUE]
        /\ \A n \in 1..Len(calls) : calls[n].op # "revoke"
        /\ Len(written) = 1
        /\ written[1].http = 200
        /\ written[1].body.status_code = 200
        /\ written[1].body.message =
              "Your IP " \o remote_ip.val \o " is appended to "
                \o ListRepr(target_security_group_ids)
        /\ (remote_ip.val = "1.2.3.4" /\ target_security_group_ids = <<"sg-1", "sg-2">>) =>
              written[1].body.message = "Your IP 1.2.3.4 is appended to ['sg-1', 'sg-2']"

\* C2 witness: IP 1.2.3.4 was authorized on sg-1 and sg-2.
C2_Witness ==
    /\ AuthorizeSucceeded
    /\ remote_ip.val = "1.2.3.4"
    /\ target_security_group_ids = <<"sg-1", "sg-2">>
    /\ Len(calls) = 2
    /\ Grant("1.2.3.4/32") \in Range(groups["sg-2"][Len(groups["sg-2"])].grants)

\* C3: no authorize or revoke call is ever issued against a group outside the
\* configured list, and the rules of every such group stay as they were,
\* whatever the configured list is (the default empty list included).
C3_OnlyConfiguredGroupsTouched ==
    /\ \A n \in 1..Len(calls) : calls[n].sg \in Configured
    /\ \A g \in Existing \ Configured : groups[g] = pre[g]

\* C4: when a cloud-API call fails, the response is the error object and
\* nothing else: 400 with the provider's message for a rejection, 500 with
\* the failure's string form for anything else.
C4_FailureMapsToErrorObject ==
    (pc = "done" /\ failure # NoFailure) =>
        LET st == IF failure.kind = "rejection" THEN 400 ELSE 500
        IN  written = <<[http |-> st,
                         body |-> [status_code |-> st, message |-> failure.message]]>>

\* C5: a Clear that follows a successful Clear, with no authorize call and no
\* other change in between, issues no revoke call and answers 200 with an
\* empty results array; after a successful Clear no configured group holds an
\* inbound grant.
C5_ClearIsIdempotent ==
    /\ (method = "DELETE" /\ afterClean) =>
          /\ calls = <<>>
          /\ \A g \in 1..Len(response_sgs) : response_sgs[g].rules = <<>>
          /\ (pc = "done" /\ failure = NoFailure) =>
                written = <<[http |-> 200, body |-> [results |-> <<>>]]>>
    /\ clean => \A id \in Configured : groups[id] = <<>>

\* C5 witness: the second of two Clears over sg-1 and sg-2 has answered.
C5_Witness ==
    /\ method = "DELETE"
    /\ afterClean
    /\ pc = "done"
    /\ failure = NoFailure
    /\ target_security_group_ids = <<"sg-1", "sg-2">>
    /\ externals = 0
    /\ Len(written) = 1

ListSucceeded == method = "GET" /\ pc = "done" /\ failure = NoFailure

\* C6: a successful List answers one object per returned group, in the
\* provider's order, with the group's name and id and one rules entry per
\* (rule, grant) pair in the provider's order (source the grant, protocol the
\* rule's, port "<from> - <to>"); List issues no authorize or revoke call and
\* leaves every group's rules as they were.
C6_ListFlattensEveryGrant ==
    /\ method = "GET" => (calls = <<>> /\ groups = pre)
    /\ ListSucceeded =>
          /\ Len(written) = 1
          /\ written[1].http = 200
          /\ LET out == written[1].body.results
             IN  /\ Len(out) = Len(response_sgs)
                 /\ \A g \in 1..Len(out) :
                       LET id == response_sgs[g].id
                       IN  /\ out[g].id = id
                           /\ out[g].name = response_sgs[g].name
                           /\ response_sgs[g].rules = groups[id]
                           /\ Len(out[g].rules) = GrantsIn(groups[id], Len(groups[id]))
                 /\ \A g, h \in 1..Len(out) :
                       g < h => \E a, b \in 1..Len(ProviderOrder) :
                                   /\ a < b
                                   /\ ProviderOrder[a] = out[g].id
                                   /\ ProviderOrder[b] = out[h].id
                 /\ \A t \in Triples(response_sgs) :
                       LET rule == groups[response_sgs[t[1]].id][t[2]]
                           e == out[t[1]].rules[GrantsIn(groups[response_sgs[t[1]].id], t[2] - 1) + t[3]]
                       IN  /\ e.source = rule.grants[t[3]].cidr_ip
                           /\ e.protocol = rule.ip_protocol
                           /\ e.port = ToString(rule.from_port) \o " - " \o ToString(rule.to_port)
                           /\ (rule.from_port = 80 /\ rule.to_port = 81) => e.port = "80 - 81"

\* C6 witness: a List over sg-1 (two rules) and sg-2 (one rule, two grants).
C6_Witness ==
    /\ ListSucceeded
    /\ Len(written[1].body.results) = 2
    /\ Len(groups["sg-1"]) = 2
    /\ Len(written[1].body.results[1].rules) = 2
    /\ Len(written[1].body.results[2].rules) >= 2
    /\ Len(groups["sg-2"]) = 1

\* The spellings of the forwarded-for header name among the header names in
\* play.
XffSpellings == {"X-Forwarded-For", "x-forwarded-for", "X-FORWARDED-FOR"}

HasXff == \E n \in 1..Len(headers) : headers[n].name \in XffSpellings

\* The value the caller IP is to be taken from.
ChosenIp ==
    IF HasXff
    THEN Some(headers[CHOOSE n \in 1..Len(headers) : headers[n].name \in XffSpellings].value)
    ELSE peer_ip

\* C7: Authorize takes the caller IP from the X-Forwarded-For header whenever
\* a header of that name (in any case) is present, whatever the peer address
\* is, and from the peer address only otherwise; the CIDR authorized and the
\* IP of the success message are built from that value.
C7_ForwardedForWins ==
    method = "POST" =>
        /\ remote_ip = ChosenIp
        /\ ChosenIp.some =>
              /\ \A n \in 1..Len(calls) : calls[n].cidr_ip = ChosenIp.val \o "/32"
              /\ (pc = "done" /\ failure = NoFailure) =>
                    written[1].body.message =
                        "Your IP " \o ChosenIp.val \o " is appended to "
                          \o ListRepr(target_security_group_ids)

\* C7 witness: a request with a lower-case forwarded-for header of 9.9.9.9
\* and peer 1.2.3.4 was authorized as 9.9.9.9/32.
C7_Witness ==
    /\ method = "POST"
    /\ pc = "done"
    /\ failure = NoFailure
    /\ headers = <<[name |-> "x-forwarded-for", value |-> "9.9.9.9"]>>
    /\ peer_ip = Some("1.2.3.4")
    /\ Len(calls) >= 1
    /\ calls[1].cidr_ip = "9.9.9.9/32"

MissingIp == method = "POST" /\ ~HasXff /\ ~peer_ip.some

\* C8: Authorize without a determinable caller IP answers 500 with the
\* message "Sorry, could not get Your IP Address." and goes on regardless: it
\* still fetches the configured groups and still attempts the authorize call,
\* with a CIDR built from the undefined IP.
C8_MissingIpRespondsAndGoesOn ==
    MissingIp =>
        /\ written = <<[http |-> 500,
                        body |-> [status_code |-> 500,
                                  message |-> "Sorry, could not get Your IP Address."]]>>
        /\ pc = "done" => fetch # "none"
        /\ (pc = "done" /\ fetch = "ok" /\ response_sgs # <<>>) => Len(calls) >= 1
        /\ \A n \in 1..Len(calls) :
              calls[n].op = "authorize" /\ calls[n].cidr_ip = "None/32"

\* C8 witness: the missing-IP request ended after an authorize call of
\* None/32 that the provider took.
C8_Witness ==
    /\ MissingIp
    /\ pc = "done"
    /\ Len(calls) >= 1
    /\ calls[1].ok
    /\ calls[1].cidr_ip = "None/32"

\* The rule of a rule list with the given protocol and ports holds grant c.
Holds(rules, p, f, t, c) ==
    \E r \in 1..Len(rules) :
        /\ rules[r].ip_protocol = p
        /\ rules[r].from_port = f
        /\ rules[r].to_port = t
        /\ c \in Range(rules[r].grants)

FailedMidway ==
    method \in {"POST", "DELETE"} /\ pc = "done" /\ failure # NoFailure /\ calls # <<>>

\* C9: when the provider fails on the k-th authorize or revoke call of a
\* request, no further such call is issued, nothing is rolled back, and the
\* answer is a single error response (no success message, no results array);
\* the k-1 mutations applied stay applied and what was not reached is
\* untouched.
C9_PartialFailureAborts ==
    FailedMidway =>
        LET k == Len(calls)
            reached == {calls[n].sg : n \in 1..(k - 1)}
        IN  /\ ~calls[k].ok
            /\ \A n \in 1..(k - 1) : calls[n].ok
            /\ Len(written) = 1
            /\ written[1].http >= 400
            /\ DOMAIN written[1].body = {"status_code", "message"}
            /\ written[1].body.status_code >= 400
            /\ \A g \in Existing \ reached : groups[g] = pre[g]
            /\ method = "POST" =>
                  \A n \in 1..(k - 1) :
                      Holds(groups[calls[n].sg], "tcp", 22, 22, Grant(calls[n].cidr_ip))
            /\ method = "DELETE" =>
                  /\ k <= Len(Enumeration(response_sgs))
                  /\ \A n \in 1..Len(Enumeration(response_sgs)) :
                        LET e == Enumeration(response_sgs)[n]
                        IN  Holds(groups[e.sg], e.ip_protocol, e.from_port, e.to_port,
                                  e.cidr_ip) <=> n >= k

\* C9 witness: a Clear failed on its second revoke call with more grants
\* still to go.
C9_Witness ==
    /\ FailedMidway
    /\ method = "DELETE"
    /\ Len(calls) = 2
    /\ Len(Enumeration(response_sgs)) > 2

\* C10: every request completes its response exactly once: on every path
\* the handler finishes exactly one response body, never none and never a
\* second one, and the status code in the body is the response's status.
C10_ExactlyOneFinish ==
    pc = "done" =>
        /\ finishCalls = 1
        /\ Len(written) = 1
        /\ ~escaped
        /\ "status_code" \in DOMAIN written[1].body =>
              written[1].body.status_code = written[1].http

====
